---- MODULE Spec2Model ----
(***************************************************************************)
(* Model of Scripts/build_md_county_aggregated_results.py: the name        *)
(* normalisers, the county resolver, the competitiveness classifier and    *)
(* the aggregation pipeline build().                                       *)
(*                                                                         *)
(* Text is a sequence of one-character strings, so that strip, lower,      *)
(* split, startswith, endswith and substring search are computed as        *)
(* Python computes them.  A percentage rounded to two decimals is the      *)
(* integer number of hundredths of a percent (20.00 is 2000).              *)
(***************************************************************************)
EXTENDS Integers, Sequences, FiniteSets, TLC

VARIABLES
    pc,             \* position: build loop, build finished, or a function call
    cur_year,       \* path.name[:4] of the file being read ("" before any file)
    tally,          \* insertion-ordered entries of the nested tally dict
    years_seen,
    contests_seen,
    payload,        \* summary and results_by_year returned by build()
    n_files,        \* files opened so far
    n_rows,         \* rows read so far
    counted,        \* history: buckets that received a row whose votes field parsed
    fn_args,        \* arguments of a direct function call
    fn_ret          \* its return value(s)

vars == <<pc, cur_year, tally, years_seen, contests_seen, payload,
          n_files, n_rows, counted, fn_args, fn_ret>>

----------------------------------------------------------------------------
(* Bounds of the model *)

MaxFiles == 2
MaxRows == 3
MaxVote == 2
MaxMargin == 4100
MaxPad == 1

----------------------------------------------------------------------------
(* Python str operations on sequences of characters *)

SetMin(S) == CHOOSE x \in S : \A y \in S : x <= y
SetMax(S) == CHOOSE x \in S : \A y \in S : x >= y

IsSpace(c) == c \in {" ", "\t"}

UpperChars == <<"A", "B", "C", "D", "E", "F", "G", "H", "I", "J", "K", "L", "M",
                "N", "O", "P", "Q", "R", "S", "T", "U", "V", "W", "X", "Y", "Z">>
LowerChars == <<"a", "b", "c", "d", "e", "f", "g", "h", "i", "j", "k", "l", "m",
                "n", "o", "p", "q", "r", "s", "t", "u", "v", "w", "x", "y", "z">>
DigitChars == <<"0", "1", "2", "3", "4", "5", "6", "7", "8", "9">>

lower_char(c) ==
    IF \E i \in DOMAIN UpperChars : UpperChars[i] = c
    THEN LowerChars[CHOOSE i \in DOMAIN UpperChars : UpperChars[i] = c]
    ELSE c

upper_char(c) ==
    IF \E i \in DOMAIN LowerChars : LowerChars[i] = c
    THEN UpperChars[CHOOSE i \in DOMAIN LowerChars : LowerChars[i] = c]
    ELSE c

RECURSIVE map_lower(_)
map_lower(s) == IF s = <<>> THEN <<>> ELSE <<lower_char(Head(s))>> \o map_lower(Tail(s))

lower(s) == map_lower(s)

RECURSIVE upper(_)
upper(s) == IF s = <<>> THEN <<>> ELSE <<upper_char(Head(s))>> \o upper(Tail(s))

strip(s) ==
    LET keep == {i \in 1..Len(s) : ~IsSpace(s[i])}
    IN  IF keep = {} THEN <<>> ELSE SubSeq(s, SetMin(keep), SetMax(keep))

\* str.find: offset of the first occurrence of sub in s, -1 when there is none
find(s, sub) ==
    LET hits == {i \in 0..(Len(s) - Len(sub)) : SubSeq(s, i + 1, i + Len(sub)) = sub}
    IN  IF hits = {} THEN -1 ELSE SetMin(hits)

\* sub in s
contains(s, sub) == find(s, sub) # -1

startswith(s, p) == Len(p) <= Len(s) /\ SubSeq(s, 1, Len(p)) = p

endswith(s, p) == Len(p) <= Len(s) /\ SubSeq(s, Len(s) - Len(p) + 1, Len(s)) = p

\* s.split(sep, 1): the list of one or two parts
split_once(s, sep) ==
    LET i == find(s, sep)
    IN  IF i = -1 THEN <<s>>
        ELSE <<SubSeq(s, 1, i), SubSeq(s, i + Len(sep) + 1, Len(s))>>

\* The grave accent cannot be written in a TLA+ string; this atom stands for it.
Backtick == "GRAVE"

\* s.replace(grave accent, "'")
RECURSIVE replace_backtick(_)
replace_backtick(s) ==
    IF s = <<>> THEN <<>>
    ELSE <<(IF Head(s) = Backtick THEN "'" ELSE Head(s))>> \o replace_backtick(Tail(s))

\* " ".join(s.split()) for a stripped s: every run of whitespace becomes one space
RECURSIVE collapse(_)
collapse(s) ==
    IF s = <<>> THEN <<>>
    ELSE IF IsSpace(Head(s))
         THEN IF Len(s) > 1 /\ IsSpace(s[2])
              THEN collapse(Tail(s))
              ELSE <<" ">> \o collapse(Tail(s))
         ELSE <<Head(s)>> \o collapse(Tail(s))

join_split(s) == collapse(strip(s))

\* int(text): an optional sign followed by decimal digits, else ValueError
int_body(t) == IF t # <<>> /\ t[1] \in {"+", "-"} THEN Tail(t) ELSE t

int_parses(s) ==
    LET b == int_body(strip(s))
    IN  b # <<>> /\ \A i \in 1..Len(b) : \E d \in DOMAIN DigitChars : DigitChars[d] = b[i]

RECURSIVE digits_value(_)
digits_value(b) ==
    IF b = <<>> THEN 0
    ELSE 10 * digits_value(SubSeq(b, 1, Len(b) - 1))
         + (CHOOSE d \in DOMAIN DigitChars : DigitChars[d] = b[Len(b)]) - 1

int_value(s) ==
    LET t == strip(s)
    IN  IF t[1] = "-" THEN 0 - digits_value(int_body(t)) ELSE digits_value(int_body(t))

----------------------------------------------------------------------------
(* Module constants *)

S_President == <<"P", "r", "e", "s", "i", "d", "e", "n", "t">>
S_Governor == <<"G", "o", "v", "e", "r", "n", "o", "r">>
S_Senator == <<"U", ".", "S", ".", " ", "S", "e", "n", "a", "t", "o", "r">>
S_AttorneyGeneral == <<"A", "t", "t", "o", "r", "n", "e", "y", " ", "G", "e", "n", "e", "r", "a", "l">>
S_Comptroller == <<"C", "o", "m", "p", "t", "r", "o", "l", "l", "e", "r">>

CONTEST_FILTER ==
    (S_President :> [contest_type |-> "Federal", office_rank |-> 1])
    @@ (S_Governor :> [contest_type |-> "State", office_rank |-> 2])
    @@ (S_Senator :> [contest_type |-> "Federal", office_rank |-> 3])
    @@ (S_AttorneyGeneral :> [contest_type |-> "State", office_rank |-> 4])
    @@ (S_Comptroller :> [contest_type |-> "State", office_rank |-> 5])

DEM == <<"D", "E", "M">>
REP == <<"R", "E", "P">>
OTH == <<"O", "T", "H">>

PARTY_MAP ==
    (<<"d", "e", "m", "o", "c", "r", "a", "t", "i", "c">> :> DEM)
    @@ (<<"r", "e", "p", "u", "b", "l", "i", "c", "a", "n">> :> REP)
    @@ (<<"l", "i", "b", "e", "r", "t", "a", "r", "i", "a", "n">> :> <<"L", "I", "B">>)
    @@ (<<"i", "n", "d", "e", "p", "e", "n", "d", "e", "n", "t">> :> <<"I", "N", "D">>)
    @@ (<<"r", "e", "f", "o", "r", "m">> :> <<"R", "E", "F">>)
    @@ (<<"g", "r", "e", "e", "n">> :> <<"G", "R", "N">>)
    @@ (<<"a", "l", "l", "i", "a", "n", "c", "e">> :> <<"A", "L", "L">>)
    @@ (<<"t", "a", "x", "p", "a", "y", "e", "r", "s">> :> <<"T", "A", "X">>)
    @@ (<<"n", "a", "t", "u", "r", "a", "l", "-", "l", "a", "w">> :> <<"N", "A", "T">>)
    @@ (<<"o", "t", "h", "e", "r">> :> OTH)
    @@ (<<"b", "o", "t", "h", " ", "p", "a", "r", "t", "i", "e", "s">> :> <<"B", "T", "H">>)

S_and == <<" ", "a", "n", "d", " ">>
S_slash == <<"/">>
S_county == <<" ", "c", "o", "u", "n", "t", "y">>
S_city == <<" ", "c", "i", "t", "y">>
S_citybare == <<"c", "i", "t", "y">>
S_baltimore == <<"b", "a", "l", "t", "i", "m", "o", "r", "e">>
S_baltimore_city == <<"b", "a", "l", "t", "i", "m", "o", "r", "e", " ", "c", "i", "t", "y">>
S_County == <<" ", "C", "o", "u", "n", "t", "y">>
S_Unknown == <<"U", "n", "k", "n", "o", "w", "n">>

----------------------------------------------------------------------------
(* Name normalisers *)

normalize_contest_name(office) ==
    LET o == strip(office)
    IN  IF startswith(o, S_Comptroller) THEN S_Comptroller ELSE o

normalize_party(party) ==
    LET p == lower(strip(party))
    IN  IF p \in DOMAIN PARTY_MAP THEN PARTY_MAP[p]
        ELSE IF p = <<>> THEN OTH
        ELSE upper(p)

remove_running_mate(name) ==
    LET candidate == strip(name)
        parts == split_once(candidate, S_and)
    IN  IF candidate = <<>> THEN candidate
        ELSE IF contains(candidate, S_slash)
             THEN strip(split_once(candidate, S_slash)[1])
        ELSE IF contains(lower(candidate), S_and) /\ Len(parts) = 2
             THEN strip(parts[1])
        ELSE candidate

_norm(s) == join_split(lower(strip(replace_backtick(s))))

----------------------------------------------------------------------------
(* County resolver *)

\* by_name.get(key, [])
dict_get(by_name, key) == IF key \in DOMAIN by_name THEN by_name[key] ELSE <<>>

\* next((x for x in xs if sub in x.lower()), None); None is modelled as the
\* empty text, which is as falsy as None and can never be a match
next_containing(xs, sub) ==
    LET hits == {i \in 1..Len(xs) : contains(lower(xs[i]), sub)}
    IN  IF hits = {} THEN <<>> ELSE xs[SetMin(hits)]

strip_suffix(nraw) ==
    IF endswith(nraw, S_county) THEN strip(SubSeq(nraw, 1, Len(nraw) - 7))
    ELSE IF endswith(nraw, S_city) THEN strip(SubSeq(nraw, 1, Len(nraw) - 5))
    ELSE nraw

fallback_name(raw) ==
    IF endswith(lower(raw), S_county) \/ endswith(lower(raw), S_city)
    THEN raw
    ELSE raw \o S_County

\* variant: the county name is tried before the city name
pick_candidate_county_first(nraw, candidates) ==
    LET city_name == next_containing(candidates, S_city)
        county_name == next_containing(candidates, S_county)
    IN  IF county_name # <<>> THEN county_name
        ELSE IF contains(nraw, S_citybare) /\ city_name # <<>> THEN city_name
        ELSE candidates[1]

pick_candidate(nraw, candidates) ==
    LET city_name == next_containing(candidates, S_city)
        county_name == next_containing(candidates, S_county)
    IN  IF contains(nraw, S_citybare) /\ city_name # <<>> THEN city_name
        ELSE IF county_name # <<>> THEN county_name
        ELSE candidates[1]

to_namelsad20(county, by_name) ==
    LET raw == replace_backtick(strip(county))
        nraw == _norm(raw)
        baltimore_city == next_containing(dict_get(by_name, S_baltimore), S_city)
        candidates == dict_get(by_name, strip_suffix(nraw))
    IN  IF nraw = S_baltimore_city /\ baltimore_city # <<>> THEN baltimore_city
        ELSE IF Len(candidates) = 1 THEN candidates[1]
        ELSE IF Len(candidates) > 1 THEN pick_candidate(nraw, candidates)
        ELSE fallback_name(raw)

----------------------------------------------------------------------------
(* Competitiveness classifier; margin_pct is in hundredths of a percent *)

band(category, winner, suffix, rep_color, dem_color, range) ==
    [category |-> category,
     party |-> IF winner = "REP" THEN "Republican" ELSE "Democratic",
     code |-> <<(IF winner = "REP" THEN "R" ELSE "D")>> \o suffix,
     color |-> IF winner = "REP" THEN rep_color ELSE dem_color,
     label |-> <<category, IF winner = "REP" THEN "Republican" ELSE "Democratic", range>>]

\* variant: the Tossup bound taken inclusive
is_tossup_inclusive(margin_pct, winner) == winner = "TIE" \/ margin_pct <= 50

is_tossup(margin_pct, winner) == winner = "TIE" \/ margin_pct < 50

competitiveness(margin_pct, winner) ==
    IF is_tossup(margin_pct, winner)
    THEN [category |-> "Tossup", party |-> "Tossup",
          code |-> <<"T", "O", "S", "S", "U", "P">>,
          color |-> "#f7f7f7", label |-> <<"Tossup", "(<0.50%)">>]
    ELSE IF margin_pct >= 4000
    THEN band("Annihilation", winner,
              <<"_", "A", "N", "N", "I", "H", "I", "L", "A", "T", "I", "O", "N">>,
              "#67000d", "#08306b", "(>=40.00%)")
    ELSE IF margin_pct >= 3000
    THEN band("Dominant", winner, <<"_", "D", "O", "M", "I", "N", "A", "N", "T">>,
              "#a50f15", "#08519c", "(30.00-39.99%)")
    ELSE IF margin_pct >= 2000
    THEN band("Stronghold", winner, <<"_", "S", "T", "R", "O", "N", "G", "H", "O", "L", "D">>,
              "#cb181d", "#3182bd", "(20.00-29.99%)")
    ELSE IF margin_pct >= 1000
    THEN band("Safe", winner, <<"_", "S", "A", "F", "E">>,
              "#ef3b2c", "#6baed6", "(10.00-19.99%)")
    ELSE IF margin_pct >= 550
    THEN band("Likely", winner, <<"_", "L", "I", "K", "E", "L", "Y">>,
              "#fb6a4a", "#9ecae1", "(5.50-9.99%)")
    ELSE IF margin_pct >= 100
    THEN band("Lean", winner, <<"_", "L", "E", "A", "N">>,
              "#fcae91", "#c6dbef", "(1.00-5.49%)")
    ELSE band("Tilt", winner, <<"_", "T", "I", "L", "T">>,
              "#fee8c8", "#e1f5fe", "(0.50-0.99%)")

----------------------------------------------------------------------------
(* Number formatting and rounding *)

\* str(n) for n >= 0
RECURSIVE nat_text(_)
nat_text(n) ==
    IF n < 10 THEN <<DigitChars[n + 1]>>
    ELSE nat_text(n \div 10) \o <<DigitChars[(n % 10) + 1]>>

int_text(n) == IF n < 0 THEN <<"-">> \o nat_text(0 - n) ELSE nat_text(n)

\* round((num / den) * 100, 2) for den > 0, in hundredths.  Python rounds the
\* double to the nearest hundredth; an exact tie needs den to be a multiple of
\* 32 and is then resolved to the even hundredth.
round2(num, den) ==
    LET q == num * 10000
        fl == q \div den
        rem == q % den
    IN  IF 2 * rem < den THEN fl
        ELSE IF 2 * rem > den THEN fl + 1
        ELSE IF fl % 2 = 0 THEN fl ELSE fl + 1

\* f"{x:.2f}" for x >= 0 given in hundredths
fmt2(h) ==
    nat_text(h \div 100) \o <<".">> \o <<DigitChars[((h % 100) \div 10) + 1]>>
    \o <<DigitChars[(h % 10) + 1]>>

\* code points order the characters that occur in the model
AsciiOrder ==
    <<"\t", " ", "'", "+", "-", ".", "/">> \o DigitChars \o UpperChars
    \o <<"_", Backtick>> \o LowerChars

char_ord(c) == CHOOSE i \in DOMAIN AsciiOrder : AsciiOrder[i] = c

RECURSIVE str_lt(_, _)
str_lt(a, b) ==
    IF b = <<>> THEN FALSE
    ELSE IF a = <<>> THEN TRUE
    ELSE IF Head(a) = Head(b) THEN str_lt(Tail(a), Tail(b))
    ELSE char_ord(Head(a)) < char_ord(Head(b))

\* sorted(S) for a set of texts
RECURSIVE sorted(_)
sorted(S) ==
    IF S = {} THEN <<>>
    ELSE LET m == CHOOSE x \in S : \A y \in S \ {x} : str_lt(x, y)
         IN  <<m>> \o sorted(S \ {m})

----------------------------------------------------------------------------
(* build(): the aggregation loop *)

\* the lookup load_namelsad20_lookup() returns: normalised NAME20 -> NAMELSAD20s
namelsad_lookup ==
    (S_baltimore :> << <<"B", "a", "l", "t", "i", "m", "o", "r", "e", " ", "C", "o", "u", "n", "t", "y">>,
                      <<"B", "a", "l", "t", "i", "m", "o", "r", "e", " ", "c", "i", "t", "y">> >>)
    @@ (<<"k", "e", "n", "t">> :> << <<"K", "e", "n", "t", " ", "C", "o", "u", "n", "t", "y">> >>)
    @@ (<<"s", "t", ".", " ", "m", "a", "r", "y", "'", "s">>
        :> << <<"S", "t", ".", " ", "M", "a", "r", "y", "'", "s", " ", "C", "o", "u", "n", "t", "y">> >>)

\* row.get(field) or default
field_or(row, field, default) ==
    IF field \in DOMAIN row /\ row[field] # <<>> THEN row[field] ELSE default

\* variant: ValueError gives 1
parse_votes_one(row) ==
    LET text == strip(field_or(row, "votes", <<"0">>))
    IN  IF int_parses(text) THEN int_value(text) ELSE 1

\* the try/except around int(); ValueError gives 0
parse_votes(row) ==
    LET text == strip(field_or(row, "votes", <<"0">>))
    IN  IF int_parses(text) THEN int_value(text) ELSE 0

\* tally[year][contest][county][party_code][candidate] += votes, on the
\* entries of the nested dict kept in order of first insertion
tally_add(t, year, contest, county, party, candidate, votes) ==
    IF \E i \in 1..Len(t) :
          /\ t[i].year = year /\ t[i].contest = contest /\ t[i].county = county
          /\ t[i].party = party /\ t[i].candidate = candidate
    THEN [i \in 1..Len(t) |->
            IF /\ t[i].year = year /\ t[i].contest = contest /\ t[i].county = county
               /\ t[i].party = party /\ t[i].candidate = candidate
            THEN [t[i] EXCEPT !.votes = @ + votes]
            ELSE t[i]]
    ELSE Append(t, [year |-> year, contest |-> contest, county |-> county,
                    party |-> party, candidate |-> candidate, votes |-> votes])

row_contest(row) == normalize_contest_name(strip(field_or(row, "office", <<>>)))
row_county(row) == to_namelsad20(strip(field_or(row, "county", <<>>)), namelsad_lookup)
row_party(row) == normalize_party(field_or(row, "party", <<>>))
row_candidate(row) ==
    LET c == remove_running_mate(strip(field_or(row, "candidate", <<>>)))
    IN  IF c # <<>> THEN c ELSE S_Unknown

\* the votes field is present, not empty, and int() accepts it
votes_field_parses(row) ==
    "votes" \in DOMAIN row /\ row["votes"] # <<>> /\ int_parses(strip(row["votes"]))

----------------------------------------------------------------------------
(* build(): the summary of one (year, contest, county) bucket *)

RECURSIVE sum_votes(_)
sum_votes(es) == IF es = <<>> THEN 0 ELSE Head(es).votes + sum_votes(Tail(es))

\* the entries of tally[year][contest][county], in insertion order
RECURSIVE bucket_entries(_, _)
bucket_entries(t, b) ==
    IF t = <<>> THEN <<>>
    ELSE IF <<Head(t).year, Head(t).contest, Head(t).county>> = b
         THEN <<Head(t)>> \o bucket_entries(Tail(t), b)
         ELSE bucket_entries(Tail(t), b)

RECURSIVE party_entries(_, _)
party_entries(es, party) ==
    IF es = <<>> THEN <<>>
    ELSE IF Head(es).party = party
         THEN <<Head(es)>> \o party_entries(Tail(es), party)
         ELSE party_entries(Tail(es), party)

\* {p: sum(cands.values()) for p, cands in by_party.items()}
party_totals(es) ==
    [p \in {es[i].party : i \in 1..Len(es)} |-> sum_votes(party_entries(es, p))]

\* party_totals.get(party, 0)
totals_get(totals, party) == IF party \in DOMAIN totals THEN totals[party] ELSE 0

RECURSIVE sum_totals(_, _)
sum_totals(totals, ps) ==
    IF ps = {} THEN 0
    ELSE LET p == CHOOSE x \in ps : TRUE
         IN  totals[p] + sum_totals(totals, ps \ {p})

\* variant: the last of the candidates with the highest count
leading_candidate_last(es, party) ==
    LET cands == party_entries(es, party)
        best == {i \in 1..Len(cands) : \A j \in 1..Len(cands) : cands[j].votes <= cands[i].votes}
    IN  IF cands = <<>> THEN <<>> ELSE cands[SetMax(best)].candidate

\* Counter(by_party[party]).most_common(1)[0][0]: max() keeps the first of the
\* candidates with the highest count, in insertion order; "" without entries
leading_candidate(es, party) ==
    LET cands == party_entries(es, party)
        best == {i \in 1..Len(cands) : \A j \in 1..Len(cands) : cands[j].votes <= cands[i].votes}
    IN  IF cands = <<>> THEN <<>> ELSE cands[SetMin(best)].candidate

abs(x) == IF x < 0 THEN 0 - x ELSE x

\* variant: equal votes go to DEM
winner_of_no_tie(dem_votes, rep_votes) ==
    IF dem_votes >= rep_votes THEN "DEM"
    ELSE IF rep_votes > dem_votes THEN "REP"
    ELSE "TIE"

winner_of(dem_votes, rep_votes) ==
    IF dem_votes > rep_votes THEN "DEM"
    ELSE IF rep_votes > dem_votes THEN "REP"
    ELSE "TIE"

margin_pct_of(margin, total_votes) ==
    IF total_votes > 0 THEN round2(margin, total_votes) ELSE 0

\* variant: the two-party total is not taken off
other_votes_of_total(total_votes, two_party_total) == total_votes

other_votes_of(total_votes, two_party_total) == total_votes - two_party_total

contest_summary(t, b) ==
    LET by_party == bucket_entries(t, b)
        totals == party_totals(by_party)
        dem_votes == totals_get(totals, DEM)
        rep_votes == totals_get(totals, REP)
        total_votes == sum_totals(totals, DOMAIN totals)
        two_party_total == dem_votes + rep_votes
        margin == abs(dem_votes - rep_votes)
        margin_pct == margin_pct_of(margin, total_votes)
        winner == winner_of(dem_votes, rep_votes)
    IN  [county |-> b[3],
         contest |-> b[2],
         contest_type |-> CONTEST_FILTER[b[2]].contest_type,
         office_rank |-> CONTEST_FILTER[b[2]].office_rank,
         year |-> b[1],
         dem_candidate |-> leading_candidate(by_party, DEM),
         rep_candidate |-> leading_candidate(by_party, REP),
         dem_votes |-> dem_votes,
         rep_votes |-> rep_votes,
         dem_pct |-> IF total_votes > 0 THEN round2(dem_votes, total_votes) ELSE 0,
         rep_pct |-> IF total_votes > 0 THEN round2(rep_votes, total_votes) ELSE 0,
         other_votes |-> other_votes_of(total_votes, two_party_total),
         total_votes |-> total_votes,
         two_party_total |-> two_party_total,
         margin |-> margin,
         margin_pct |-> fmt2(margin_pct),
         winner |-> winner,
         competitiveness |-> competitiveness(margin_pct, winner),
         all_parties |-> totals]

buckets(t) == {<<t[i].year, t[i].contest, t[i].county>> : i \in 1..Len(t)}

\* the two loops over sorted keys fill results_by_year; a function of the
\* (year, contest, county) keys stands for the nested dict
results_of(t) == [b \in buckets(t) |-> contest_summary(t, b)]

\* total_county_results += 1, once per county of each contest of each year
RECURSIVE count_contests(_, _, _)
count_contests(t, year, contests) ==
    IF contests = {} THEN 0
    ELSE LET c == CHOOSE x \in contests : TRUE
         IN  Cardinality({b[3] : b \in {x \in buckets(t) : x[1] = year /\ x[2] = c}})
             + count_contests(t, year, contests \ {c})

RECURSIVE count_years(_, _)
count_years(t, years) ==
    IF years = {} THEN 0
    ELSE LET y == CHOOSE x \in years : TRUE
         IN  count_contests(t, y, {b[2] : b \in {x \in buckets(t) : x[1] = y}})
             + count_years(t, years \ {y})

\* variant: the counter is advanced once per contest
total_county_results_per_contest(t) == Cardinality({<<b[1], b[2]>> : b \in buckets(t)})

total_county_results_of(t) == count_years(t, {b[1] : b \in buckets(t)})

summary_of(years, contests, t) ==
    [total_years |-> Cardinality(years),
     total_contests |-> Cardinality(contests),
     total_county_results |-> total_county_results_of(t),
     years_covered |-> sorted(years)]

----------------------------------------------------------------------------
(* Inputs of the model *)

\* path.name[:4] of the input files that may exist, in sorted order
YearPrefixes == << <<"2", "0", "2", "0">>, <<"2", "0", "2", "2">>, <<"2", "0", "x", "x">> >>

T_Kent == <<"K", "e", "n", "t">>
T_BaltimoreCity == <<"B", "a", "l", "t", "i", "m", "o", "r", "e", " ", "C", "i", "t", "y">>
T_Democratic == <<"D", "e", "m", "o", "c", "r", "a", "t", "i", "c">>
T_REPUBLICAN == <<"R", "E", "P", "U", "B", "L", "I", "C", "A", "N">>
T_Green == <<"G", "r", "e", "e", "n">>
T_Lee == <<"L", "e", "e">>
T_RayPoe == <<"R", "a", "y", "/", "P", "o", "e">>
T_Orr == <<"O", "r", "r">>
T_Sheriff == <<"S", "h", "e", "r", "i", "f", "f">>
T_ComptrollerGeneral ==
    <<"C", "o", "m", "p", "t", "r", "o", "l", "l", "e", "r", " ", "G", "e", "n", "e", "r", "a", "l">>

\* contents of the votes column: counts, a negative number, text, nothing
VoteTexts == {int_text(n) : n \in 1..MaxVote} \cup {<<"-", "1">>, <<"x">>, <<>>}

CsvRows ==
    {[office |-> S_President, county |-> T_Kent, party |-> pcv[1],
      candidate |-> pcv[2], votes |-> pcv[3]] :
        pcv \in ({T_Democratic} \X {T_Lee, T_RayPoe} \X VoteTexts)
                \cup ({T_REPUBLICAN} \X {T_Orr} \X VoteTexts)}
    \cup {[office |-> S_President, county |-> T_Kent, party |-> T_Green,
           candidate |-> <<>>, votes |-> <<"1">>]}
    \cup {[office |-> T_ComptrollerGeneral, county |-> T_BaltimoreCity,
           party |-> T_Democratic, candidate |-> T_Lee, votes |-> <<" ", "1">>]}
    \cup {[office |-> T_Sheriff, county |-> T_Kent, party |-> T_Democratic,
           candidate |-> T_Lee, votes |-> <<"1">>]}
    \cup {[office |-> S_President]}

----------------------------------------------------------------------------
(* State machine of build() *)

EmptyPayload ==
    [summary |-> [total_years |-> 0, total_contests |-> 0,
                  total_county_results |-> 0, years_covered |-> <<>>],
     results_by_year |-> <<>>]

NoCall == [margin_pct |-> 0, winner |-> "NONE"]
NoBand == [category |-> "", party |-> "", code |-> <<>>, color |-> "", label |-> <<>>]

BuildStart ==
    /\ cur_year = <<>>
    /\ tally = <<>>
    /\ years_seen = {}
    /\ contests_seen = {}
    /\ payload = EmptyPayload
    /\ n_files = 0
    /\ n_rows = 0
    /\ counted = {}

year_index(y) == IF y = <<>> THEN 0 ELSE CHOOSE i \in DOMAIN YearPrefixes : YearPrefixes[i] = y

\* for path in files: the next file in sorted order; one whose name does not
\* start with an integer is skipped
OpenFile(i) ==
    /\ pc \in {"files", "rows"}
    /\ n_files < MaxFiles
    /\ i >= year_index(cur_year)
    /\ n_files' = n_files + 1
    /\ cur_year' = YearPrefixes[i]
    /\ IF int_parses(YearPrefixes[i])
       THEN years_seen' = years_seen \cup {YearPrefixes[i]} /\ pc' = "rows"
       ELSE years_seen' = years_seen /\ pc' = "files"
    /\ UNCHANGED <<tally, contests_seen, payload, n_rows, counted, fn_args, fn_ret>>

\* the locals the loop body derives from a row alone (lines 220-231), computed
\* once for each row the model reads
row_locals ==
    [row \in CsvRows |->
        [contest |-> row_contest(row), county |-> row_county(row),
         party_code |-> row_party(row), candidate |-> row_candidate(row),
         votes |-> parse_votes(row), parsed |-> votes_field_parses(row)]]

\* for row in reader: one row of the open file
ReadRow(row) ==
    /\ pc = "rows"
    /\ n_rows < MaxRows
    /\ n_rows' = n_rows + 1
    /\ IF row_locals[row].contest \notin DOMAIN CONTEST_FILTER
       THEN UNCHANGED <<tally, contests_seen, counted>>
       ELSE /\ tally' = tally_add(tally, cur_year, row_locals[row].contest,
                                  row_locals[row].county, row_locals[row].party_code,
                                  row_locals[row].candidate, row_locals[row].votes)
            /\ contests_seen' = contests_seen \cup {row_locals[row].contest}
            /\ counted' = IF row_locals[row].parsed
                          THEN counted \cup {<<cur_year, row_locals[row].contest,
                                               row_locals[row].county>>}
                          ELSE counted
    /\ UNCHANGED <<pc, cur_year, years_seen, payload, n_files, fn_args, fn_ret>>

\* the files are exhausted: summarise every bucket and return the payload
Finish ==
    /\ pc \in {"files", "rows"}
    /\ pc' = "done"
    /\ payload' = [summary |-> summary_of(years_seen, contests_seen, tally),
                   results_by_year |-> results_of(tally)]
    /\ UNCHANGED <<cur_year, tally, years_seen, contests_seen, n_files, n_rows,
                   counted, fn_args, fn_ret>>

\* a direct call of competitiveness(margin_pct, winner)
CallCompetitiveness ==
    /\ pc = "call"
    /\ pc' = "return"
    /\ fn_ret' = competitiveness(fn_args.margin_pct, fn_args.winner)
    /\ UNCHANGED <<cur_year, tally, years_seen, contests_seen, payload, n_files,
                   n_rows, counted, fn_args>>

Init ==
    /\ BuildStart
    /\ fn_ret = NoBand
    /\ \/ pc = "files" /\ fn_args = NoCall
       \/ /\ pc = "call"
          /\ fn_args \in [margin_pct : 0..MaxMargin, winner : {"DEM", "REP", "TIE"}]

Next ==
    \/ \E i \in DOMAIN YearPrefixes : OpenFile(i)
    \/ \E row \in CsvRows : ReadRow(row)
    \/ Finish
    \/ CallCompetitiveness

Spec == Init /\ [][Next]_vars

----------------------------------------------------------------------------
(* Direct calls of to_namelsad20 and remove_running_mate *)

RECURSIVE spaces(_)
spaces(n) == IF n = 0 THEN <<>> ELSE <<" ">> \o spaces(n - 1)

N_BaltimoreCounty == <<"B", "a", "l", "t", "i", "m", "o", "r", "e", " ", "C", "o", "u", "n", "t", "y">>
N_BaltimoreCity == <<"B", "a", "l", "t", "i", "m", "o", "r", "e", " ", "c", "i", "t", "y">>

N_KentCounty == <<"K", "e", "n", "t", " ", "C", "o", "u", "n", "t", "y">>
N_KentCity == <<"K", "e", "n", "t", " ", "c", "i", "t", "y">>

\* the two baltimore entries in the other order, and a second base name that
\* is both a county and a city
lookup_city_first ==
    (S_baltimore :> <<N_BaltimoreCity, N_BaltimoreCounty>>)
    @@ (<<"k", "e", "n", "t">> :> <<N_KentCounty, N_KentCity>>)

\* a reference whose full names carry other suffixes than County and city
lookup_other_suffix ==
    (S_baltimore :> <<N_BaltimoreCounty, N_BaltimoreCity>>)
    @@ (<<"k", "e", "n", "t">> :> << <<"K", "e", "n", "t", " ", "P", "a", "r", "i", "s", "h">>,
                                    <<"K", "e", "n", "t", " ", "B", "o", "r", "o", "u", "g", "h">> >>)

CountySuffixTables == {namelsad_lookup, lookup_city_first}
LookupTables == CountySuffixTables \cup {lookup_other_suffix}

RawCounties ==
    {spaces(x[1]) \o x[2] \o spaces(x[3]) \o x[4] \o spaces(x[5]) :
        x \in (0..MaxPad)
              \X {<<>>, <<"B", "a", "l", "t", "i", "m", "o", "r", "e">>,
                  <<"B", "A", "L", "T", "I", "M", "O", "R", "E">>, T_Kent,
                  <<"H", "o", "w", "a", "r", "d">>,
                  <<"S", "t", ".", " ", "M", "a", "r", "y", Backtick, "s">>}
              \X (0..(MaxPad + 1))
              \X {<<>>, <<"C", "o", "u", "n", "t", "y">>, <<"c", "o", "u", "n", "t", "y">>,
                  <<"C", "i", "t", "y">>, <<"c", "i", "t", "y">>}
              \X (0..MaxPad)}

CandidateNames ==
    {spaces(x[1]) \o x[2] \o x[3] \o x[4] \o spaces(x[5]) :
        x \in (0..MaxPad)
              \X {<<>>, <<"S", "m", "i", "t", "h">>, <<"S", "a", "n", "d", "y">>}
              \X {<<>>, <<"/">>, <<" ", "/", " ">>, S_and, <<" ", "A", "N", "D", " ">>,
                  <<" ", "A", "n", "d", " ">>, <<"a", "n", "d">>}
              \X {<<>>, <<"J", "o", "n", "e", "s">>,
                  <<"L", "e", "e", " ", "a", "n", "d", " ", "K", "i", "m">>,
                  <<"L", "e", "e", "/", "K", "i", "m">>}
              \X (0..MaxPad)}

\* to_namelsad20(county, by_name)
CallToNamelsad20 ==
    /\ pc = "call"
    /\ pc' = "return"
    /\ fn_ret' = <<to_namelsad20(fn_args.county, fn_args.by_name)>>
    /\ UNCHANGED <<cur_year, tally, years_seen, contests_seen, payload, n_files,
                   n_rows, counted, fn_args>>

\* to_namelsad20 applied to its own result
CallToNamelsad20Again ==
    /\ pc = "return"
    /\ pc' = "return2"
    /\ fn_ret' = Append(fn_ret, to_namelsad20(fn_ret[1], fn_args.by_name))
    /\ UNCHANGED <<cur_year, tally, years_seen, contests_seen, payload, n_files,
                   n_rows, counted, fn_args>>

InitCounty ==
    /\ BuildStart
    /\ pc = "call"
    /\ fn_args \in [county : RawCounties, by_name : LookupTables]
    /\ fn_ret = <<>>

NextCounty == CallToNamelsad20 \/ CallToNamelsad20Again

SpecCounty == InitCounty /\ [][NextCounty]_vars

\* remove_running_mate(name)
CallRemoveRunningMate ==
    /\ pc = "call"
    /\ pc' = "return"
    /\ fn_ret' = remove_running_mate(fn_args.name)
    /\ UNCHANGED <<cur_year, tally, years_seen, contests_seen, payload, n_files,
                   n_rows, counted, fn_args>>

InitRunningMate ==
    /\ BuildStart
    /\ pc = "call"
    /\ fn_args \in [name : CandidateNames]
    /\ fn_ret = <<>>

NextRunningMate == CallRemoveRunningMate

SpecRunningMate == InitRunningMate /\ [][NextRunningMate]_vars

----------------------------------------------------------------------------
(* Properties *)

\* the entries of the tally, by position, of one bucket and of one of its parties
BucketIdx(b) ==
    {i \in 1..Len(tally) : <<tally[i].year, tally[i].contest, tally[i].county>> = b}

PartyIdx(b, party) == {i \in BucketIdx(b) : tally[i].party = party}

RECURSIVE SumIdx(_)
SumIdx(I) ==
    IF I = {} THEN 0
    ELSE LET i == CHOOSE x \in I : TRUE IN tally[i].votes + SumIdx(I \ {i})

Results == payload.results_by_year

LowerBounds ==
    << [lo |-> 4000, category |-> "Annihilation"], [lo |-> 3000, category |-> "Dominant"],
       [lo |-> 2000, category |-> "Stronghold"], [lo |-> 1000, category |-> "Safe"],
       [lo |-> 550, category |-> "Likely"], [lo |-> 100, category |-> "Lean"],
       [lo |-> 50, category |-> "Tilt"] >>

FirstMatchingBand(m) ==
    LET hits == {i \in DOMAIN LowerBounds : m >= LowerBounds[i].lo}
    IN  IF hits = {} THEN "Tossup" ELSE LowerBounds[SetMin(hits)].category

\* C1: for a DEM or REP winner, competitiveness returns the band of the first
\* lower bound, in descending order, that the margin reaches (each bound
\* inclusive), Tossup only below 0.50, and a party and code prefix that match
\* the winner for every band other than Tossup.
C1_BandByLowerBound ==
    (pc = "return" /\ fn_args.winner \in {"DEM", "REP"}) =>
        /\ fn_ret.category = FirstMatchingBand(fn_args.margin_pct)
        /\ (fn_ret.category = "Tossup") <=> (fn_args.margin_pct < 50)
        /\ fn_args.margin_pct = 50 => fn_ret.category = "Tilt"
        /\ fn_ret.category # "Tossup" =>
              /\ fn_ret.party = (IF fn_args.winner = "DEM" THEN "Democratic" ELSE "Republican")
              /\ SubSeq(fn_ret.code, 1, 2) = (IF fn_args.winner = "DEM" THEN <<"D", "_">> ELSE <<"R", "_">>)

C1_Witness ==
    /\ pc = "return"
    /\ fn_args = [margin_pct |-> 50, winner |-> "DEM"]
    /\ fn_ret.category = "Tilt"
    /\ fn_ret.code = <<"D", "_", "T", "I", "L", "T">>

\* C2: competitiveness(x, "TIE") is the Tossup band for every x, and every
\* bucket of build() whose DEM votes equal its REP votes (both absent
\* included) has winner TIE and the Tossup band, whatever the other parties got.
C2_TieIsTossup ==
    /\ (pc = "return" /\ fn_args.winner = "TIE") =>
          fn_ret.category = "Tossup" /\ fn_ret.party = "Tossup"
    /\ pc = "done" =>
          \A b \in buckets(tally) :
              SumIdx(PartyIdx(b, DEM)) = SumIdx(PartyIdx(b, REP)) =>
                  /\ b \in DOMAIN Results
                  /\ Results[b].winner = "TIE"
                  /\ Results[b].competitiveness.category = "Tossup"
                  /\ Results[b].competitiveness.party = "Tossup"

C2_Witness ==
    /\ pc = "done"
    /\ \E b \in DOMAIN Results :
          /\ PartyIdx(b, DEM) # {}
          /\ SumIdx(PartyIdx(b, DEM)) = SumIdx(PartyIdx(b, REP))
          /\ SumIdx(PartyIdx(b, DEM)) > 0
          /\ Results[b].other_votes > 0
          /\ Results[b].winner = "TIE"

\* C3: in every result record dem_votes + rep_votes + other_votes = total_votes,
\* total_votes is the sum of all the votes tallied in the bucket,
\* two_party_total = dem_votes + rep_votes, and dem_votes (rep_votes) is the
\* DEM (REP) total of the bucket, 0 without such a party entry.
C3_VotesAddUp ==
    pc = "done" =>
        \A b \in DOMAIN Results :
            /\ Results[b].dem_votes + Results[b].rep_votes + Results[b].other_votes
                  = Results[b].total_votes
            /\ Results[b].total_votes = SumIdx(BucketIdx(b))
            /\ Results[b].two_party_total = Results[b].dem_votes + Results[b].rep_votes
            /\ Results[b].dem_votes = SumIdx(PartyIdx(b, DEM))
            /\ Results[b].rep_votes = SumIdx(PartyIdx(b, REP))
            /\ PartyIdx(b, DEM) = {} => Results[b].dem_votes = 0
            /\ PartyIdx(b, REP) = {} => Results[b].rep_votes = 0

C3_Witness ==
    /\ pc = "done"
    /\ \E b \in DOMAIN Results :
          /\ Results[b].dem_votes = 2
          /\ PartyIdx(b, REP) = {}
          /\ Results[b].other_votes = 1
          /\ Results[b].total_votes = 3

\* C4 (as stated): with a lookup whose names all end in " County" or " city",
\* resolving the result of to_namelsad20 again gives the same name.
C4_Idempotent ==
    (pc = "return2" /\ fn_args.by_name \in CountySuffixTables) => fn_ret[2] = fn_ret[1]

\* what the claim of C5 says remove_running_mate returns
ClaimedBaseName(name) ==
    LET c == strip(name)
    IN  IF c = <<>> THEN <<>>
        ELSE IF contains(c, S_slash) THEN strip(SubSeq(c, 1, find(c, S_slash)))
        ELSE IF contains(lower(c), S_and) THEN strip(SubSeq(c, 1, find(lower(c), S_and)))
        ELSE c

\* C5 (as stated): remove_running_mate returns the trimmed text before the
\* first "/", else before the first " and " matched without regard to case,
\* else the trimmed name, and the empty text for blank input.
C5_StripsRunningMate ==
    pc = "return" => fn_ret = ClaimedBaseName(fn_args.name)

\* the names of a list that contain sub, case-insensitively, by position
Holding(xs, sub) == {i \in 1..Len(xs) : contains(lower(xs[i]), sub)}

BaseKey(raw) == strip_suffix(_norm(raw))

\* C6: when the base key has several names in the lookup, the result is the
\* first name containing " city" if the normalised raw text contains "city",
\* else the first name containing " county", else the first name; with
\* baltimore mapped to a county and a city entry in either order, raw text
\* normalising to "baltimore city" gives the city entry, and text normalising
\* to "baltimore" or "baltimore county" gives the county entry.
C6_CityCountyPreference ==
    pc = "return" =>
        LET raw == fn_args.county
            cands == dict_get(fn_args.by_name, BaseKey(raw))
            cities == Holding(cands, S_city)
            counties == Holding(cands, S_county)
        IN  /\ Len(cands) > 1 =>
                 fn_ret[1] = IF contains(_norm(raw), S_citybare) /\ cities # {}
                             THEN cands[SetMin(cities)]
                             ELSE IF counties # {} THEN cands[SetMin(counties)]
                             ELSE cands[1]
            /\ _norm(raw) = S_baltimore_city => fn_ret[1] = N_BaltimoreCity
            /\ _norm(raw) \in {S_baltimore, S_baltimore \o S_county} =>
                 fn_ret[1] = N_BaltimoreCounty

C6_Witness ==
    /\ pc = "return"
    /\ fn_args.by_name = lookup_city_first
    /\ _norm(fn_args.county) = <<"k", "e", "n", "t">> \o S_city
    /\ Len(dict_get(fn_args.by_name, BaseKey(fn_args.county))) = 2
    /\ fn_ret[1] = N_KentCity

\* C7 (as stated): every vote count stored in the tally is non-negative.
C7_CountsNonNegative ==
    \A i \in 1..Len(tally) : tally[i].votes >= 0

\* the tally entry a row is added to
RowKey(row) ==
    <<cur_year, row_locals[row].contest, row_locals[row].county,
      row_locals[row].party_code, row_locals[row].candidate>>

EntryKey(e) == <<e.year, e.contest, e.county, e.party, e.candidate>>

VotesAt(t, k) ==
    IF \E i \in 1..Len(t) : EntryKey(t[i]) = k
    THEN t[CHOOSE i \in 1..Len(t) : EntryKey(t[i]) = k].votes
    ELSE 0

\* the rows of an allowed office whose votes field is missing, empty or not a number
UnparsableRows ==
    {row \in CsvRows : row_contest(row) \in DOMAIN CONTEST_FILTER /\ ~votes_field_parses(row)}

\* reading such a row leaves every count as it was, creates the row's entry
\* (with the count it had, 0 when new) and records the contest
UnparsableRowStep ==
    (pc = "rows" /\ n_rows' = n_rows + 1) =>
        \A row \in UnparsableRows :
            ReadRow(row) =>
                /\ \E i \in 1..Len(tally') : EntryKey(tally'[i]) = RowKey(row)
                /\ VotesAt(tally', RowKey(row)) = VotesAt(tally, RowKey(row))
                /\ \A i \in 1..Len(tally) : tally'[i] = tally[i]
                /\ Len(tally') = IF \E i \in 1..Len(tally) : EntryKey(tally[i]) = RowKey(row)
                                 THEN Len(tally) ELSE Len(tally) + 1
                /\ row_locals[row].contest \in contests_seen'

\* a bucket that only such rows went to has one result record, all zero
ZeroBucketRecords ==
    pc = "done" =>
        \A b \in buckets(tally) \ counted :
            /\ b \in DOMAIN Results
            /\ Results[b].total_votes = 0
            /\ Results[b].margin_pct = <<"0", ".", "0", "0">>
            /\ Results[b].dem_pct = 0
            /\ Results[b].rep_pct = 0
            /\ Results[b].winner = "TIE"
            /\ Results[b].competitiveness.category = "Tossup"

\* C8: a row with an allowed office and an unparsable or empty votes field adds
\* 0 to its tally entry, creating it if needed, records the contest and changes
\* no other entry; a bucket made only of such rows yields a record with
\* total_votes 0, margin_pct "0.00", dem_pct and rep_pct 0, winner TIE, Tossup.
C8_UnparsableVotesCountZero ==
    [][UnparsableRowStep]_vars /\ [](ZeroBucketRecords)

C8_Witness ==
    /\ pc = "done"
    /\ \E b \in DOMAIN Results :
          /\ b \notin counted
          /\ Cardinality(BucketIdx(b)) = 2
          /\ Results[b].total_votes = 0

\* the candidate the claim of C9 names for a party of a bucket
IsLeading(b, party, name) ==
    IF PartyIdx(b, party) = {} THEN name = <<>>
    ELSE /\ name # <<>>
         /\ \E i \in PartyIdx(b, party) :
               /\ tally[i].candidate = name
               /\ \A j \in PartyIdx(b, party) : tally[j].votes <= tally[i].votes
               /\ \A j \in PartyIdx(b, party) : tally[j].votes = tally[i].votes => i <= j

\* C9: dem_candidate (rep_candidate) is a candidate of the party with the
\* highest count, the earliest inserted of those that share it, and the empty
\* text exactly when the party has no entry in the bucket.
C9_LeadingCandidate ==
    pc = "done" =>
        \A b \in DOMAIN Results :
            /\ IsLeading(b, DEM, Results[b].dem_candidate)
            /\ IsLeading(b, REP, Results[b].rep_candidate)

C9_Witness ==
    /\ pc = "done"
    /\ \E b \in DOMAIN Results :
          \E i, j \in PartyIdx(b, DEM) :
              /\ i < j
              /\ tally[i].votes = tally[j].votes
              /\ tally[i].votes > 0
              /\ Results[b].dem_candidate = tally[i].candidate
              /\ Results[b].rep_candidate = <<>>

SeqRange(q) == {q[i] : i \in 1..Len(q)}

\* C10: total_county_results is the number of records of results_by_year,
\* total_contests the number of distinct contests in it, every year key is in
\* years_covered and total_years = len(years_covered).
C10_SummaryCounts ==
    pc = "done" =>
        /\ payload.summary.total_county_results = Cardinality(DOMAIN Results)
        /\ payload.summary.total_contests = Cardinality({b[2] : b \in DOMAIN Results})
        /\ {b[1] : b \in DOMAIN Results} \subseteq SeqRange(payload.summary.years_covered)
        /\ payload.summary.total_years = Len(payload.summary.years_covered)

\* a year of a file without an accepted row is covered and has no results key
C10_Witness ==
    /\ pc = "done"
    /\ payload.summary.total_county_results = 2
    /\ payload.summary.total_contests = 1
    /\ \E y \in SeqRange(payload.summary.years_covered) :
          y \notin {b[1] : b \in DOMAIN Results}

====
